---- MODULE Spec2Model ----
(***************************************************************************)
(* Model of the file upload service (satyamsundaram/drive): the upload,    *)
(* list, download, info and delete handlers of backend/routes/upload.js    *)
(* over the local file system and the Cloudinary provider.                 *)
(*                                                                         *)
(* Strings are sequences of tokens ("file", ".", "jpg", "/", "u1"), so     *)
(* that path.extname, path.join, path.relative, toLowerCase and parseInt   *)
(* are computed, not assumed.  A path is a sequence of segments, each a    *)
(* token sequence.  The file system fs maps the normalised path of every   *)
(* existing file to its content.                                           *)
(***************************************************************************)
EXTENDS Integers, Sequences, FiniteSets, TLC

\* ------------------------------------------------------------------ bounds
NumReq == 2         \* concurrent request slots
MaxPage == 4        \* the page numbers the list claim is checked for
MaxPageSize == 3    \* the page sizes the list claim is checked for
MaxUploads == 2     \* uploads that pass validation in one behaviour
MaxFaults == 1      \* failing I/O calls in one behaviour
Midnight == 2       \* the clock reading at which the calendar date changes

\* ------------------------------------------------------------------ config
maxFileSize == 50 * 1024 * 1024
allowedTypes == {"image/jpeg", "image/png", "image/gif", "application/pdf", "text/plain"}
allowedExtensions ==
  { <<".", "jpg">>, <<".", "jpeg">>, <<".", "png">>, <<".", "gif">>,
    <<".", "pdf">>, <<".", "txt">>, <<".", "doc">>, <<".", "docx">> }
uploadDirStr == <<".", "/", "uploads">>
metadataDirStr == <<".", "/", "uploads", "/", "metadata">>
cloudFolder == <<"file-upload-service">>

\* ------------------------------------------------------------ string helpers
Last(s) == s[Len(s)]
Front(s) == SubSeq(s, 1, Len(s) - 1)

Dot == <<".">>
DotDot == <<".", ".">>

\* str.split('/') without the empty pieces, as path.join and path.extname see it
RECURSIVE SplitFrom(_, _, _)
SplitFrom(s, cur, out) ==
  IF s = <<>> THEN (IF cur = <<>> THEN out ELSE Append(out, cur))
  ELSE IF Head(s) = "/"
       THEN SplitFrom(Tail(s), <<>>, IF cur = <<>> THEN out ELSE Append(out, cur))
       ELSE SplitFrom(Tail(s), Append(cur, Head(s)), out)

Split(s) == SplitFrom(s, <<>>, <<>>)

\* path.normalize on a relative path: "." dropped, ".." removes the segment before it
RECURSIVE NormFrom(_, _)
NormFrom(segs, out) ==
  IF segs = <<>> THEN out
  ELSE LET h == Head(segs) IN
       IF h = Dot THEN NormFrom(Tail(segs), out)
       ELSE IF h = DotDot
            THEN IF out # <<>> /\ Last(out) # DotDot
                 THEN NormFrom(Tail(segs), Front(out))
                 ELSE NormFrom(Tail(segs), Append(out, DotDot))
            ELSE NormFrom(Tail(segs), Append(out, h))

Normalize(segs) == NormFrom(segs, <<>>)

\* path.join(dir, str): dir a path, str a string that may itself hold separators
Join(dir, str) == Normalize(dir \o Split(str))

\* path.join(dir, rel) for a rel that is already a path
JoinPath(dir, rel) == Normalize(dir \o rel)

RECURSIVE CommonPrefix(_, _)
CommonPrefix(a, b) ==
  IF a = <<>> \/ b = <<>> \/ Head(a) # Head(b) THEN 0
  ELSE 1 + CommonPrefix(Tail(a), Tail(b))

\* path.relative(from, to), both relative to the working directory
Relative(from, to) ==
  LET f == Normalize(from)
      t == Normalize(to)
      k == CommonPrefix(f, t)
  IN  [i \in 1..(Len(f) - k) |-> DotDot] \o SubSeq(t, k + 1, Len(t))

\* the index of the last "." of a file name, 0 when it has none
RECURSIVE LastDot(_, _)
LastDot(base, i) ==
  IF i = 0 THEN 0 ELSE IF base[i] = "." THEN i ELSE LastDot(base, i - 1)

\* path.extname: the extension of the last path segment, "" for a name
\* without a dot, for a dot file and for ".."
extname(name) ==
  LET segs == Split(name)
      base == IF segs = <<>> THEN <<>> ELSE Last(segs)
      d == LastDot(base, Len(base))
  IN  IF d = 0 \/ d = 1 \/ base = DotDot THEN <<>> ELSE SubSeq(base, d, Len(base))

Lower(t) ==
  CASE t = "JPG" -> "jpg"
    [] t = "EXE" -> "exe"
    [] t = "TXT" -> "txt"
    [] OTHER -> t

toLowerCase(s) == [i \in DOMAIN s |-> Lower(s[i])]

uploadDir == Normalize(Split(uploadDirStr))
metadataDir == Normalize(Split(metadataDirStr))

\* ------------------------------------------------------------------ uuids
LegacyUuid == "u0"
UuidNames == <<"u1", "u2", "u3", "u4", "u5", "u6", "u7", "u8">>
Uuids == {UuidNames[i] : i \in 1..(2 * MaxUploads)}

\* ------------------------------------------------------------- validation
validateFileType_either(mimeType, originalName) ==
  LET extension == toLowerCase(extname(originalName))
      isMimeTypeAllowed == mimeType \in allowedTypes
      isExtensionAllowed == extension \in allowedExtensions
  IN  isMimeTypeAllowed \/ isExtensionAllowed

validateFileType(mimeType, originalName) ==
  LET extension == toLowerCase(extname(originalName))
      isMimeTypeAllowed == mimeType \in allowedTypes
      isExtensionAllowed == extension \in allowedExtensions
  IN  isMimeTypeAllowed /\ isExtensionAllowed

validateFileSize_strict(size) == size < maxFileSize
validateFileSize(size) == size <= maxFileSize

\* multer's limits.fileSize: the stream is cut, and LIMIT_FILE_SIZE raised,
\* once more than fileSize bytes have arrived
multerLimitExceeded_off(size) == FALSE
multerLimitExceeded(size) == size > maxFileSize

\* ------------------------------------------------------------ path builders
generateUniqueFilename(originalName, uuid) == <<uuid>> \o extname(originalName)

\* Every reading of the clock is later than the readings before it; the
\* calendar date of reading t as the three directory names year, month, day
DateDirs(t) ==
  IF t < Midnight THEN << <<"2026">>, <<"11">>, <<"04">> >>
                  ELSE << <<"2026">>, <<"11">>, <<"05">> >>

generateFilePath(filename, t) ==
  LET dateDir == JoinPath(uploadDir, DateDirs(t))
      fullPath == Join(dateDir, filename)
  IN  [fullPath |-> fullPath, dateDir |-> dateDir,
       relativePath |-> Relative(uploadDir, fullPath)]

\* `${fileId}.json` joined to the metadata directory
metadataPathOf(fileId) == Join(metadataDir, fileId \o <<".json">>)


\* ------------------------------------------------------------------- state
VARIABLES
  storageType,  \* config.storage.type: "local" or "cloudinary"
  now,          \* the clock: what the next new Date() returns
  fs,           \* the file system: path -> content, for every existing file
  cloud,        \* the provider's resources
  usedUuids,    \* the uuids uuidv4() has returned
  pc,           \* pc[r]: the await a request is suspended at, or "idle"
  loc,          \* loc[r]: the locals of the handler run of request r
  resp,         \* the response sent by the step just taken
  issued,       \* history: the uploads answered 201, with what they stored
  deletes,      \* history: per record id, how far the delete calls on it got
  faults        \* the I/O failures so far

vars == <<storageType, now, fs, cloud, usedUuids, pc, loc, resp, issued,
          deletes, faults>>

Reqs == 1..NumReq
\* a new request takes the first free slot (the slots are interchangeable)
FreeSlot(r) == pc[r] = "idle" /\ \A q \in 1..(r - 1) : pc[q] # "idle"
NoLoc == [step |-> "none"]
NoResp == [op |-> "none", status |-> 0]
None == <<>>               \* an absent or empty string, an absent path
Null == [null |-> TRUE]    \* the null a lookup returns

\* ------------------------------------------------------------- request inputs
SmallContent == [data |-> "A", size |-> 1]
FullContent == [data |-> "B", size |-> maxFileSize]
OversizeContent == [data |-> "C", size |-> maxFileSize + 1]
UploadFile(name, mimetype, content) ==
  [originalname |-> name, mimetype |-> mimetype, content |-> content]
UploadFiles ==
  { UploadFile(<<"notes", ".", "TXT">>, "text/plain", FullContent),
    UploadFile(<<"file", ".", "jpg">>, "image/jpeg", OversizeContent),
    UploadFile(<<"file", ".", "exe">>, "image/jpeg", SmallContent),
    UploadFile(<<"file">>, "image/jpeg", SmallContent) }

\* an id that path.join resolves, from the metadata directory, to the
\* package.json of the working directory
TraversalId == <<".", ".", "/", ".", ".", "/", "package">>

\* req.params.id: a uuid, or a string that path.join normalises to a file name
FileIds ==
  { <<u>> : u \in Uuids \cup {LegacyUuid} } \cup { <<".", "/", LegacyUuid>>, TraversalId }

\* req.query.page and req.query.limit: absent (None) or a string of characters
QueryValues == { None, <<"0">>, <<"1">>, <<"2">>, <<"-", "1">>, <<"a">> }

\* ------------------------------------------------------------------ history
DeleteCalled(id) == id \in DOMAIN deletes
DeleteDone(id) == id \in DOMAIN deletes /\ deletes[id] \in {"done", "deleted", "twice"}
Deleted(id) == id \in DOMAIN deletes /\ deletes[id] \in {"deleted", "twice"}
NoteDelete(id, how) ==
  [i \in DOMAIN deletes \cup {id} |->
     IF i # id THEN deletes[i]
     ELSE IF Deleted(id) /\ how = "deleted" THEN "twice"
     ELSE IF Deleted(id) THEN deletes[id]
     ELSE IF how = "deleted" THEN "deleted"
     ELSE IF DeleteDone(id) THEN "done"
     ELSE how]
CanFail == faults < MaxFaults

\* ----------------------------------------------------------- file system
Exists(path) == path \in DOMAIN fs
WriteFile(f, path, content) ==
  [p \in DOMAIN f \cup {path} |-> IF p = path THEN content ELSE f[p]]
Unlink_kept(f, path) == f
Unlink(f, path) == [p \in DOMAIN f \ {path} |-> f[p]]
Blob(content) == [kind |-> "blob", bytes |-> content.data, size |-> content.size]
Json(metadata) == [kind |-> "json", data |-> metadata]
\* what a write that failed part way leaves: text that JSON.parse rejects
Truncated == [kind |-> "truncated"]

\* fs.readFile + JSON.parse: Null (the caller's catch) when the file is absent
\* or is no JSON
ReadJson(path) ==
  IF Exists(path) /\ fs[path].kind = "json" THEN fs[path].data ELSE Null

\* ---------------------------------------------------------------- provider
publicIdOf(uniqueId) == cloudFolder \o <<"/">> \o uniqueId
lastSegment(publicId) == Last(Split(publicId))

\* what resource_type 'auto' may make of an upload: (resource_type, format)
\* and the provider's own original_filename: absent, or what it derived
ProviderOutcomes == { <<"image", "jpg", None>>, <<"raw", "", <<"file">> >> }

\* the name fallback chain of the listing (getAllFileMetadataFromCloudinary)
originalNameInList(resource) ==
  IF resource.contextCustomName # None THEN resource.contextCustomName
  ELSE IF resource.contextName # None THEN resource.contextName
  ELSE IF resource.original_filename # None THEN resource.original_filename
  ELSE IF \E i \in DOMAIN resource.tags : Head(resource.tags[i]) = "original_name:"
       THEN LET i == CHOOSE j \in DOMAIN resource.tags :
                       /\ Head(resource.tags[j]) = "original_name:"
                       /\ \A k \in 1..(j - 1) : Head(resource.tags[k]) # "original_name:"
            IN  Tail(resource.tags[i])
       ELSE lastSegment(resource.public_id)


originalNameById_tagFirst(resource) ==
  IF resource.contextCustomName # None THEN resource.contextCustomName
  ELSE IF resource.contextName # None THEN resource.contextName
  ELSE IF \E i \in DOMAIN resource.tags : Head(resource.tags[i]) = "original_name:"
       THEN LET i == CHOOSE j \in DOMAIN resource.tags :
                       /\ Head(resource.tags[j]) = "original_name:"
                       /\ \A k \in 1..(j - 1) : Head(resource.tags[k]) # "original_name:"
            IN  Tail(resource.tags[i])
  ELSE IF resource.original_filename # None THEN resource.original_filename
  ELSE lastSegment(resource.public_id)

\* the name fallback chain of the lookup (getFileMetadataFromCloudinaryById)
originalNameById(resource) ==
  IF resource.contextCustomName # None THEN resource.contextCustomName
  ELSE IF resource.contextName # None THEN resource.contextName
  ELSE IF resource.original_filename # None THEN resource.original_filename
  ELSE IF \E i \in DOMAIN resource.tags : Head(resource.tags[i]) = "original_name:"
       THEN LET i == CHOOSE j \in DOMAIN resource.tags :
                       /\ Head(resource.tags[j]) = "original_name:"
                       /\ \A k \in 1..(j - 1) : Head(resource.tags[k]) # "original_name:"
            IN  Tail(resource.tags[i])
       ELSE lastSegment(resource.public_id)

cloudMimeType(resource) ==
  IF resource.resource_type = "image" THEN "image/" \o resource.format
  ELSE resource.resource_type

cloudMetadata(resource, originalName) ==
  [ id |-> lastSegment(resource.public_id),
    originalName |-> originalName,
    fileName |-> lastSegment(resource.public_id),
    mimeType |-> cloudMimeType(resource),
    size |-> resource.bytes,
    uploadDate |-> resource.created_at,
    path |-> None,
    relativePath |-> None,
    storageType |-> "cloudinary",
    url |-> resource.secure_url,
    publicId |-> resource.public_id ]

getFileMetadataFromCloudinaryById(fileId) ==
  IF \E res \in cloud : lastSegment(res.public_id) = fileId
  THEN LET resource == CHOOSE res \in cloud : lastSegment(res.public_id) = fileId
       IN  cloudMetadata(resource, originalNameById(resource))
  ELSE Null

\* ------------------------------------------------------------ metadata store
loadFileMetadata(fileId) ==
  IF storageType = "cloudinary" /\ getFileMetadataFromCloudinaryById(fileId) # Null
  THEN getFileMetadataFromCloudinaryById(fileId)
  ELSE ReadJson(metadataPathOf(fileId))

gatheredMetadata_allOrNothing ==
  IF storageType = "cloudinary"
  THEN { cloudMetadata(res, originalNameInList(res)) : res \in cloud }
  ELSE IF \E q \in DOMAIN fs : Front(q) = metadataDir /\ fs[q].kind # "json"
  THEN {}
  ELSE { fs[p].data : p \in { q \in DOMAIN fs :
                               /\ Front(q) = metadataDir
                               /\ Last(Last(q)) = ".json" } }

\* the records getAllFileMetadata gathers before sorting
gatheredMetadata ==
  IF storageType = "cloudinary"
  THEN { cloudMetadata(res, originalNameInList(res)) : res \in cloud }
  ELSE { fs[p].data : p \in { q \in DOMAIN fs :
                               /\ Front(q) = metadataDir
                               /\ Last(Last(q)) = ".json"
                               /\ fs[q].kind = "json" } }

\* the orders Array.sort may return: newest first, the order among equal
\* upload dates being that of the directory or provider listing
RECURSIVE sortedOrders(_)
sortedOrders(S) ==
  IF S = {} THEN { <<>> }
  ELSE UNION { { <<m>> \o rest : rest \in sortedOrders(S \ {m}) } :
               m \in { x \in S : \A y \in S : x.uploadDate >= y.uploadDate } }


\* ------------------------------------------------------------------ listing
\* parseInt: leading blanks, an optional sign, then the longest run of digits;
\* <<>> stands for NaN, <<n>> for the number n
Digits == {"0", "1", "2", "3", "4", "5", "6", "7", "8", "9"}
DigitVal(c) ==
  CASE c = "0" -> 0 [] c = "1" -> 1 [] c = "2" -> 2 [] c = "3" -> 3 [] c = "4" -> 4
    [] c = "5" -> 5 [] c = "6" -> 6 [] c = "7" -> 7 [] c = "8" -> 8 [] c = "9" -> 9

RECURSIVE digitsValue(_, _, _)
digitsValue(s, acc, seen) ==
  IF s # <<>> /\ Head(s) \in Digits
  THEN digitsValue(Tail(s), 10 * acc + DigitVal(Head(s)), TRUE)
  ELSE IF seen THEN <<acc>> ELSE <<>>

RECURSIVE parseInt(_)
parseInt(s) ==
  IF s = <<>> THEN <<>>
  ELSE IF Head(s) = " " THEN parseInt(Tail(s))
  ELSE IF Head(s) = "-"
       THEN LET v == digitsValue(Tail(s), 0, FALSE) IN
            IF v = <<>> THEN <<>> ELSE <<0 - v[1]>>
  ELSE IF Head(s) = "+" THEN digitsValue(Tail(s), 0, FALSE)
  ELSE digitsValue(s, 0, FALSE)

\* parseInt(x) || d: NaN and 0 are falsy
orDefault(p, d) == IF p = <<>> \/ p[1] = 0 THEN d ELSE p[1]

queryPage(raw) == orDefault(parseInt(raw), 1)
queryLimit(raw) == orDefault(parseInt(raw), 10)
listOffset_fromPage(page, limit) == page * limit
listOffset(page, limit) == (page - 1) * limit

\* Math.ceil(a / b) for b # 0
ceilDiv(a, b) == IF b > 0 THEN 0 - ((0 - a) \div b) ELSE 0 - (a \div (0 - b))

\* Array.prototype.slice(start, end): a negative index counts from the end
sliceIndex(len, i) == IF i < 0 THEN (IF len + i < 0 THEN 0 ELSE len + i)
                      ELSE IF i > len THEN len ELSE i
slice(s, start, end) ==
  SubSeq(s, sliceIndex(Len(s), start) + 1, sliceIndex(Len(s), end))

formatFile(file) ==
  [ id |-> file.id, originalName |-> file.originalName, fileName |-> file.fileName,
    mimeType |-> file.mimeType, size |-> file.size, uploadDate |-> file.uploadDate ]

listResponse(rawPage, rawLimit, allFiles) ==
  LET page == queryPage(rawPage)
      limit == queryLimit(rawLimit)
      offset == listOffset(page, limit)
      totalFiles == Len(allFiles)
      totalPages == ceilDiv(totalFiles, limit)
      files == slice(allFiles, offset, offset + limit)
  IN  [ op |-> "list", status |-> 200, req |-> [page |-> rawPage, limit |-> rawLimit],
        files |-> [i \in DOMAIN files |-> formatFile(files[i])],
        pagination |-> [ page |-> page, limit |-> limit, totalFiles |-> totalFiles,
                         totalPages |-> totalPages,
                         hasNext |-> page < totalPages,
                         hasPrev |-> page > 1 ] ]


\* ------------------------------------------------------------------ uploads
\* uuidv4(): a value never returned before (the least unused name: the
\* names are interchangeable)
freshUuid_reused == UuidNames[1]
freshUuid == UuidNames[Cardinality(usedUuids) + 1]
secondFreshUuid == UuidNames[Cardinality(usedUuids) + 2]

uploadToLocal_fromFileName(file, uuid, t) ==
  LET uniqueId == <<uuid>>
      extension == extname(file.originalname)
      relativePath == Relative(uploadDir, Join(uploadDir, uniqueId \o extension))
  IN  [ id |-> uniqueId,
        originalName |-> file.originalname,
        fileName |-> uniqueId \o extension,
        mimeType |-> file.mimetype,
        size |-> file.size,
        uploadDate |-> t,
        path |-> file.path,
        relativePath |-> relativePath,
        storageType |-> "local",
        url |-> None,
        publicId |-> None ]

\* StorageService.uploadToLocal: file is multer's file object
uploadToLocal(file, uuid, t) ==
  LET uniqueId == <<uuid>>
      extension == extname(file.originalname)
      relativePath == Relative(uploadDir, file.path)
  IN  [ id |-> uniqueId,
        originalName |-> file.originalname,
        fileName |-> uniqueId \o extension,
        mimeType |-> file.mimetype,
        size |-> file.size,
        uploadDate |-> t,
        path |-> file.path,
        relativePath |-> relativePath,
        storageType |-> "local",
        url |-> None,
        publicId |-> None ]

\* StorageService.uploadToCloudinary, once the provider has answered with result
uploadToCloudinary(file, uniqueId, result, t) ==
  [ id |-> uniqueId,
    originalName |-> file.originalname,
    fileName |-> result.public_id,
    mimeType |-> file.mimetype,
    size |-> file.size,
    uploadDate |-> t,
    path |-> None,
    relativePath |-> None,
    storageType |-> "cloudinary",
    url |-> result.secure_url,
    publicId |-> result.public_id ]

\* the resource the provider creates for an upload under publicId
providerResource(publicId, content, kind, t) ==
  [ public_id |-> publicId,
    contextCustomName |-> None,
    contextName |-> None,
    original_filename |-> kind[3],
    tags |-> <<>>,
    resource_type |-> kind[1],
    format |-> kind[2],
    bytes |-> content.size,
    data |-> content.data,
    created_at |-> t,
    secure_url |-> <<"https://">> \o publicId ]

uploadResponse(file, metadata) ==
  [ op |-> "upload", status |-> 201, req |-> file,
    file |-> formatFile(metadata) ]

uploadError(file, status, error) ==
  [ op |-> "upload", status |-> status, req |-> file, error |-> error ]

\* the 500 of an upload whose blob step threw: the disk write (multer passes
\* the error on to the server's error handler) or the provider upload (the
\* catch of the route)
blobFailure(file) ==
  IF storageType = "local"
  THEN [ op |-> "upload", status |-> 500, req |-> file,
         error |-> "Internal server error", blobStored |-> FALSE ]
  ELSE [ op |-> "upload", status |-> 500, req |-> file,
         error |-> "Upload failed", blobStored |-> FALSE ]

\* the 500 of an upload whose saveFileMetadata threw (the catch of the route)
saveFailure(file) ==
  [ op |-> "upload", status |-> 500, req |-> file,
    error |-> "Upload failed", blobStored |-> TRUE ]

\* a record in the old format, stored by an earlier run of the service: the
\* path of the blob as multer gave it, no relativePath and no storageType
legacyPath == Join(uploadDir, <<"2025", "/", "01", "/", "15", "/", LegacyUuid, ".", "jpg">>)
legacyFile == UploadFile(<<"old", ".", "jpg">>, "image/jpeg", [data |-> "L", size |-> 2])
legacyMetadata ==
  [ id |-> <<LegacyUuid>>,
    originalName |-> legacyFile.originalname,
    fileName |-> <<LegacyUuid, ".", "jpg">>,
    mimeType |-> legacyFile.mimetype,
    size |-> legacyFile.content.size,
    uploadDate |-> 0,
    path |-> legacyPath,
    relativePath |-> None,
    storageType |-> None,
    url |-> None,
    publicId |-> None ]

\* the package.json of the working directory: a JSON object with none of the
\* fields of a metadata record
packagePath == Split(<<"package", ".json">>)
packageJson ==
  [ id |-> None, originalName |-> None, fileName |-> None, mimeType |-> None,
    size |-> None, uploadDate |-> None, path |-> None, relativePath |-> None,
    storageType |-> None, url |-> None, publicId |-> None ]

Init ==
  /\ storageType \in {"local", "cloudinary"}
  /\ now = 1
  /\ fs = WriteFile(WriteFile(WriteFile([p \in {} |-> Null],
                                        packagePath, Json(packageJson)),
                              legacyPath, Blob(legacyFile.content)),
                    metadataPathOf(legacyMetadata.id), Json(legacyMetadata))
  /\ cloud = {}
  /\ usedUuids = {}
  /\ pc = [r \in Reqs |-> "idle"]
  /\ loc = [r \in Reqs |-> NoLoc]
  /\ resp = NoResp
  /\ issued = { [id |-> legacyMetadata.id, file |-> legacyFile, blobPath |-> legacyPath] }
  /\ deletes = [id \in {} |-> "none"]
  /\ faults = 0

Finish(r, response) ==
  /\ pc' = [pc EXCEPT ![r] = "idle"]
  /\ loc' = [loc EXCEPT ![r] = NoLoc]
  /\ resp' = response

Suspend(r, at, locals) ==
  /\ pc' = [pc EXCEPT ![r] = at]
  /\ loc' = [loc EXCEPT ![r] = locals]
  /\ resp' = NoResp

\* POST /upload up to the first await: fileFilter, then (local) the storage
\* engine's destination and filename, or (cloudinary) the memory storage, the
\* size limit, validateUploadedFile and the start of uploadToCloudinary
UploadStart(r, file) ==
  /\ FreeSlot(r)
  /\ UNCHANGED <<storageType, fs, cloud, issued, deletes, faults>>
  /\ now' = IF storageType = "local" /\ validateFileType(file.mimetype, file.originalname)
            THEN now + 1 ELSE now
  /\ IF ~validateFileType(file.mimetype, file.originalname)
     THEN /\ Finish(r, uploadError(file, 400, "Invalid file type"))
          /\ UNCHANGED usedUuids
     ELSE IF storageType = "local"
     THEN /\ Cardinality(usedUuids) + 2 <= 2 * MaxUploads
          /\ LET uniqueFilename == generateUniqueFilename(file.originalname, freshUuid)
                 dest == generateFilePath(uniqueFilename, now)
             IN  Suspend(r, "write",
                         [ file |-> file, uniqueFilename |-> uniqueFilename,
                           dateDir |-> dest.dateDir, nextUuid |-> secondFreshUuid ])
          /\ usedUuids' = usedUuids \cup {freshUuid, secondFreshUuid}
     ELSE IF multerLimitExceeded(file.content.size)
     THEN /\ Finish(r, uploadError(file, 400, "File too large"))
          /\ UNCHANGED usedUuids
     ELSE IF ~validateFileSize(file.content.size)
     THEN /\ Finish(r, uploadError(file, 400, "File too large"))
          /\ UNCHANGED usedUuids
     ELSE /\ Cardinality(usedUuids) + 1 <= MaxUploads
          /\ Suspend(r, "cloudUpload",
                     [ file |-> file, uniqueId |-> <<freshUuid>>,
                       publicId |-> publicIdOf(<<freshUuid>>) ])
          /\ usedUuids' = usedUuids \cup {freshUuid}

\* local: multer's disk storage writes the blob; then validateUploadedFile
\* and storageService.uploadFile build the metadata
UploadWrite(r) ==
  /\ pc[r] = "write"
  /\ UNCHANGED <<storageType, cloud, usedUuids, issued, deletes>>
  /\ LET l == loc[r]
         path == Join(l.dateDir, l.uniqueFilename)
         file == [ originalname |-> l.file.originalname, mimetype |-> l.file.mimetype,
                   size |-> l.file.content.size, path |-> path ]
     IN  IF multerLimitExceeded(l.file.content.size)
         THEN /\ Finish(r, uploadError(l.file, 400, "File too large"))
              /\ UNCHANGED <<fs, faults, now>>
         ELSE \/ /\ CanFail
                 /\ faults' = faults + 1
                 /\ Finish(r, blobFailure(l.file))
                 /\ UNCHANGED <<fs, now>>
              \/ /\ fs' = WriteFile(fs, path, Blob(l.file.content))
                 /\ now' = now + 1
                 /\ UNCHANGED faults
                 /\ IF ~validateFileSize(file.size)
                    THEN Finish(r, uploadError(l.file, 400, "File too large"))
                    ELSE Suspend(r, "save",
                                 [ file |-> l.file, blobPath |-> path,
                                   metadata |-> uploadToLocal(file, l.nextUuid, now) ])

UploadCloud_unchecked(r) ==
  /\ pc[r] = "cloudUpload"
  /\ UNCHANGED <<storageType, fs, usedUuids, issued, deletes>>
  /\ LET l == loc[r]
         file == [ originalname |-> l.file.originalname, mimetype |-> l.file.mimetype,
                   size |-> l.file.content.size, path |-> None ]
     IN  \E kind \in ProviderOutcomes :
           LET result == providerResource(l.publicId, l.file.content, kind, now)
               proceed == Suspend(r, "save",
                                  [ file |-> l.file, blobPath |-> None,
                                    metadata |-> uploadToCloudinary(file, l.uniqueId, result, now) ])
           IN  \/ /\ CanFail
                  /\ faults' = faults + 1
                  /\ now' = now + 1
                  /\ UNCHANGED cloud
                  /\ proceed
               \/ /\ UNCHANGED faults
                  /\ now' = now + 1
                  /\ cloud' = {res \in cloud : res.public_id # l.publicId} \cup {result}
                  /\ proceed

\* cloudinary: the provider answers the upload call
UploadCloud(r) ==
  /\ pc[r] = "cloudUpload"
  /\ UNCHANGED <<storageType, fs, usedUuids, issued, deletes>>
  /\ LET l == loc[r]
         file == [ originalname |-> l.file.originalname, mimetype |-> l.file.mimetype,
                   size |-> l.file.content.size, path |-> None ]
     IN  \/ /\ CanFail
            /\ faults' = faults + 1
            /\ Finish(r, blobFailure(l.file))
            /\ UNCHANGED <<cloud, now>>
         \/ \E kind \in ProviderOutcomes :
              LET result == providerResource(l.publicId, l.file.content, kind, now)
              IN  /\ UNCHANGED faults
                  /\ now' = now + 1
                  /\ cloud' = {res \in cloud : res.public_id # l.publicId} \cup {result}
                  /\ Suspend(r, "save",
                             [ file |-> l.file, blobPath |-> None,
                               metadata |-> uploadToCloudinary(file, l.uniqueId, result, now) ])

\* saveFileMetadata, then the 201 response
UploadSave(r) ==
  /\ pc[r] = "save"
  /\ UNCHANGED <<storageType, now, cloud, usedUuids, deletes>>
  /\ LET l == loc[r] IN
       \/ /\ CanFail
          /\ faults' = faults + 1
          /\ Finish(r, saveFailure(l.file))
          /\ \/ UNCHANGED fs
             \/ fs' = WriteFile(fs, metadataPathOf(l.metadata.id), Truncated)
          /\ UNCHANGED issued
       \/ /\ UNCHANGED faults
          /\ fs' = WriteFile(fs, metadataPathOf(l.metadata.id), Json(l.metadata))
          /\ Finish(r, uploadResponse(l.file, l.metadata))
          /\ issued' = issued \cup
               { [id |-> l.metadata.id, file |-> l.file, blobPath |-> l.blobPath] }


\* ------------------------------------------------------------- info and list
notFound(op, fileId) ==
  [ op |-> op, status |-> 404, req |-> fileId, error |-> "File not found" ]

\* what GET /files/:id/info answers in the current state
infoResponse(fileId) ==
  LET metadata == loadFileMetadata(fileId) IN
    IF metadata = Null THEN notFound("info", fileId)
    ELSE [ op |-> "info", status |-> 200, req |-> fileId,
           file |-> formatFile(metadata) ]

\* GET /files/:id/info
Info(fileId) ==
  /\ UNCHANGED <<storageType, now, fs, cloud, usedUuids, pc, loc, issued,
                 deletes, faults>>
  /\ resp' = infoResponse(fileId)

\* GET /files
List(rawPage, rawLimit) ==
  /\ UNCHANGED <<storageType, now, fs, cloud, usedUuids, pc, loc, issued,
                 deletes, faults>>
  /\ \E allFiles \in sortedOrders(gatheredMetadata) :
       resp' = listResponse(rawPage, rawLimit, allFiles)


\* ------------------------------------------------------------- failing reads
\* what loadFileMetadata returns when one of its reads throws: a failing
\* provider listing is caught inside getFileMetadataFromCloudinaryById, which
\* returns null, and the local JSON file is read instead; a failing readFile
\* is caught by loadFileMetadata itself, which returns null
loadFileMetadataWhenReadFails(fileId, what) ==
  IF what = "provider" THEN ReadJson(metadataPathOf(fileId))
  ELSE IF storageType = "cloudinary" /\ getFileMetadataFromCloudinaryById(fileId) # Null
  THEN getFileMetadataFromCloudinaryById(fileId)
  ELSE Null

\* the reads of a lookup that can throw under the configured storage type
lookupReads == IF storageType = "cloudinary" THEN {"provider", "file"} ELSE {"file"}

\* what getAllFileMetadata returns when readdir, or the provider listing,
\* throws: the catch of either function returns the empty array
getAllFileMetadataWhenReadFails == <<>>

\* GET /files/:id/info while a read of loadFileMetadata throws
InfoReadFails(fileId, what) ==
  /\ CanFail
  /\ what \in lookupReads
  /\ faults' = faults + 1
  /\ UNCHANGED <<storageType, now, fs, cloud, usedUuids, pc, loc, issued, deletes>>
  /\ LET metadata == loadFileMetadataWhenReadFails(fileId, what) IN
       resp' = IF metadata = Null
               THEN [ op |-> "info", status |-> 404, req |-> fileId,
                      error |-> "File not found", ioFailed |-> what ]
               ELSE [ op |-> "info", status |-> 200, req |-> fileId,
                      file |-> formatFile(metadata), ioFailed |-> what ]

\* GET /files while readdir or the provider listing throws
ListReadFails(rawPage, rawLimit) ==
  /\ CanFail
  /\ faults' = faults + 1
  /\ UNCHANGED <<storageType, now, fs, cloud, usedUuids, pc, loc, issued, deletes>>
  /\ resp' = [ r \in {"ioFailed"} \cup
                     DOMAIN listResponse(rawPage, rawLimit, getAllFileMetadataWhenReadFails) |->
               IF r = "ioFailed" THEN "listing"
               ELSE listResponse(rawPage, rawLimit, getAllFileMetadataWhenReadFails)[r] ]

\* ----------------------------------------------------------------- download
\* the blob path the download route resolves from a record; None when the
\* record holds neither relativePath nor path
resolveFilePath(metadata) ==
  IF metadata.relativePath # None THEN JoinPath(uploadDir, metadata.relativePath)
  ELSE IF metadata.path # None THEN metadata.path
  ELSE None

\* GET /files/:id up to fs.access
DownloadStart(r, fileId) ==
  /\ FreeSlot(r)
  /\ UNCHANGED <<storageType, now, fs, cloud, usedUuids, issued, deletes, faults>>
  /\ LET metadata == loadFileMetadata(fileId) IN
       IF metadata = Null THEN Finish(r, notFound("download", fileId))
       ELSE IF metadata.storageType = "cloudinary"
       THEN Finish(r, [ op |-> "download", status |-> 302, req |-> fileId,
                        url |-> metadata.url ])
       ELSE IF metadata.storageType = "local" \/ metadata.storageType = None
       THEN IF resolveFilePath(metadata) = None
            THEN Finish(r, [ op |-> "download", status |-> 500, req |-> fileId,
                             error |-> "Invalid metadata" ])
            ELSE Suspend(r, "access", [ fileId |-> fileId, metadata |-> metadata,
                                        filePath |-> resolveFilePath(metadata) ])
       ELSE Finish(r, [ op |-> "download", status |-> 500, req |-> fileId,
                        error |-> "Unknown storage type" ])


DownloadAccess_unchecked(r) ==
  /\ pc[r] = "access"
  /\ UNCHANGED <<storageType, now, fs, cloud, usedUuids, issued, deletes, faults>>
  /\ Suspend(r, "stream", loc[r])

\* fs.access answers; the headers are set and the read stream is created
DownloadAccess(r) ==
  /\ pc[r] = "access"
  /\ UNCHANGED <<storageType, now, fs, cloud, usedUuids, issued, deletes, faults>>
  /\ IF ~Exists(loc[r].filePath)
     THEN Finish(r, notFound("download", loc[r].fileId))
     ELSE Suspend(r, "stream", loc[r])

\* the read stream opens the file and is piped to the response
DownloadStream(r) ==
  /\ pc[r] = "stream"
  /\ UNCHANGED <<storageType, now, fs, cloud, usedUuids, issued, deletes, faults>>
  /\ LET l == loc[r] IN
       IF Exists(l.filePath) /\ fs[l.filePath].kind = "blob"
       THEN Finish(r, [ op |-> "download", status |-> 200, req |-> l.fileId,
                        id |-> l.metadata.id, filePath |-> l.filePath,
                        bytes |-> fs[l.filePath].bytes,
                        contentType |-> l.metadata.mimeType,
                        contentLength |-> l.metadata.size,
                        filename |-> l.metadata.originalName ])
       ELSE Finish(r, [ op |-> "download", status |-> 0, req |-> l.fileId,
                        error |-> "unhandled stream error" ])

\* ------------------------------------------------------------------- delete
\* DELETE /files/:id up to the blob removal
DeleteStart(r, fileId) ==
  /\ FreeSlot(r)
  /\ UNCHANGED <<storageType, now, fs, cloud, usedUuids, issued, faults>>
  /\ LET metadata == loadFileMetadata(fileId) IN
       IF metadata = Null
       THEN /\ Finish(r, [ op |-> "delete", status |-> 404, req |-> fileId,
                           error |-> "File not found", again |-> DeleteDone(fileId) ])
            /\ UNCHANGED deletes
       ELSE /\ Suspend(r, "unlinkBlob", [ fileId |-> fileId, metadata |-> metadata,
                                          again |-> DeleteDone(fileId) ])
            /\ deletes' = NoteDelete(metadata.id, "called")


deleteFilePath_relativeOnly(metadata) ==
  IF metadata.relativePath # None THEN JoinPath(uploadDir, metadata.relativePath)
  ELSE None

\* the blob path deleteFromLocal resolves from a record; None when the record
\* holds neither relativePath nor path
deleteFilePath(metadata) ==
  IF metadata.relativePath # None THEN JoinPath(uploadDir, metadata.relativePath)
  ELSE IF metadata.path # None THEN metadata.path
  ELSE None

\* storageService.deleteFile(metadata): deleteFromCloudinary or deleteFromLocal
DeleteBlob(r) ==
  /\ pc[r] = "unlinkBlob"
  /\ UNCHANGED <<storageType, now, usedUuids, issued, deletes>>
  /\ LET l == loc[r]
         filePath == deleteFilePath(l.metadata)
         next(fileDeleted, blobStep) ==
           Suspend(r, "unlinkMeta", [ fileId |-> l.fileId, metadata |-> l.metadata,
                                      again |-> l.again, fileDeleted |-> fileDeleted,
                                      blobStep |-> blobStep ])
     IN  IF l.metadata.storageType = "cloudinary"
         THEN \/ /\ cloud' = {res \in cloud : res.public_id # l.metadata.publicId}
                 /\ UNCHANGED <<fs, faults>>
                 /\ next(TRUE, IF \E res \in cloud : res.public_id = l.metadata.publicId
                               THEN "removed" ELSE "absent")
              \/ /\ CanFail
                 /\ faults' = faults + 1
                 /\ UNCHANGED <<fs, cloud>>
                 /\ next(FALSE, "failed")
         ELSE IF filePath = None
         THEN /\ UNCHANGED <<fs, cloud, faults>>
              /\ next(FALSE, "nopath")
         ELSE IF Exists(filePath)
         THEN \/ /\ fs' = Unlink(fs, filePath)
                 /\ UNCHANGED <<cloud, faults>>
                 /\ next(TRUE, "removed")
              \/ /\ CanFail
                 /\ faults' = faults + 1
                 /\ UNCHANGED <<fs, cloud>>
                 /\ next(FALSE, "failed")
         ELSE /\ UNCHANGED <<fs, cloud, faults>>
              /\ next(FALSE, "absent")

\* what the delete route sends once both removal steps have been tried; l
\* holds the locals of the run, metaStep is how the metadata unlink went
deleteResponse(l, metadataDeleted, metaStep) ==
  IF l.fileDeleted /\ metadataDeleted
  THEN [ op |-> "delete", status |-> 200, req |-> l.fileId, again |-> l.again,
         record |-> l.metadata.id, blobStep |-> l.blobStep, metaStep |-> metaStep,
         deletedFile |-> [ id |-> l.metadata.id,
                           originalName |-> l.metadata.originalName ] ]
  ELSE [ op |-> "delete", status |-> 500, req |-> l.fileId, again |-> l.again,
         record |-> l.metadata.id, blobStep |-> l.blobStep, metaStep |-> metaStep,
         error |-> "Delete failed" ]


DeleteMeta_absentIsDone(r) ==
  /\ pc[r] = "unlinkMeta"
  /\ UNCHANGED <<storageType, now, cloud, usedUuids, issued>>
  /\ LET l == loc[r]
         metadataPath == metadataPathOf(l.fileId)
         answer(metadataDeleted, metaStep) ==
           /\ Finish(r, deleteResponse(l, metadataDeleted, metaStep))
           /\ deletes' = NoteDelete(l.metadata.id,
                                    IF l.fileDeleted /\ metadataDeleted
                                    THEN "deleted" ELSE "done")
     IN  IF Exists(metadataPath)
         THEN \/ /\ fs' = Unlink(fs, metadataPath)
                 /\ UNCHANGED faults
                 /\ answer(TRUE, "removed")
              \/ /\ CanFail
                 /\ faults' = faults + 1
                 /\ UNCHANGED fs
                 /\ answer(FALSE, "failed")
         ELSE /\ UNCHANGED <<fs, faults>>
              /\ answer(TRUE, "absent")

DeleteMeta_afterBlobOnly(r) ==
  /\ pc[r] = "unlinkMeta"
  /\ UNCHANGED <<storageType, now, cloud, usedUuids, issued>>
  /\ LET l == loc[r]
         metadataPath == metadataPathOf(l.fileId)
         answer(metadataDeleted, metaStep) ==
           /\ Finish(r, deleteResponse(l, metadataDeleted, metaStep))
           /\ deletes' = NoteDelete(l.metadata.id,
                                    IF l.fileDeleted /\ metadataDeleted
                                    THEN "deleted" ELSE "done")
     IN  IF ~l.fileDeleted
         THEN /\ UNCHANGED <<fs, faults>>
              /\ answer(FALSE, "skipped")
         ELSE IF Exists(metadataPath)
         THEN \/ /\ fs' = Unlink(fs, metadataPath)
                 /\ UNCHANGED faults
                 /\ answer(TRUE, "removed")
              \/ /\ CanFail
                 /\ faults' = faults + 1
                 /\ UNCHANGED fs
                 /\ answer(FALSE, "failed")
         ELSE /\ UNCHANGED <<fs, faults>>
              /\ answer(FALSE, "absent")

\* fs.unlink of the metadata file, then the response
DeleteMeta(r) ==
  /\ pc[r] = "unlinkMeta"
  /\ UNCHANGED <<storageType, now, cloud, usedUuids, issued>>
  /\ LET l == loc[r]
         metadataPath == metadataPathOf(l.fileId)
         answer(metadataDeleted, metaStep) ==
           /\ Finish(r, deleteResponse(l, metadataDeleted, metaStep))
           /\ deletes' = NoteDelete(l.metadata.id,
                                    IF l.fileDeleted /\ metadataDeleted
                                    THEN "deleted" ELSE "done")
     IN  IF Exists(metadataPath)
         THEN \/ /\ fs' = Unlink(fs, metadataPath)
                 /\ UNCHANGED faults
                 /\ answer(TRUE, "removed")
              \/ /\ CanFail
                 /\ faults' = faults + 1
                 /\ UNCHANGED fs
                 /\ answer(FALSE, "failed")
         ELSE /\ UNCHANGED <<fs, faults>>
              /\ answer(FALSE, "absent")

\* req.query of the list requests made
ListQueries ==
  { <<None, None>>, <<<<"2">>, <<"1">>>>, <<<<"1">>, <<"2">>>>, <<<<"-", "1">>, None>>,
    <<<<"1">>, <<"-", "1">>>>, <<<<"0">>, <<"a">>>> }

\* the requests are handled one at a time
Next ==
  \/ \E file \in UploadFiles : UploadStart(1, file)
  \/ UploadWrite(1)
  \/ UploadCloud(1)
  \/ UploadSave(1)
  \/ \E fileId \in FileIds : Info(fileId)
  \/ \E q \in ListQueries : List(q[1], q[2])
  \/ \E fileId \in FileIds : DownloadStart(1, fileId)
  \/ DownloadAccess(1)
  \/ DownloadStream(1)
  \/ \E fileId \in FileIds : DeleteStart(1, fileId)
  \/ DeleteBlob(1)
  \/ DeleteMeta(1)

Spec == Init /\ [][Next]_vars

\* the ids of the records that exist or have existed
KnownIds == { i.id : i \in issued }

\* up to NumReq requests are in flight together, for the files that pass the
\* type check and the records that have been stored
NextConcurrent ==
  \/ \E r \in Reqs, file \in UploadFiles :
       /\ validateFileType(file.mimetype, file.originalname)
       /\ UploadStart(r, file)
  \/ \E r \in Reqs : UploadWrite(r)
  \/ \E r \in Reqs : UploadCloud(r)
  \/ \E r \in Reqs : UploadSave(r)
  \/ \E r \in Reqs, fileId \in KnownIds : DownloadStart(r, fileId)
  \/ \E r \in Reqs : DownloadAccess(r)
  \/ \E r \in Reqs : DownloadStream(r)
  \/ \E r \in Reqs, fileId \in KnownIds : DeleteStart(r, fileId)
  \/ \E r \in Reqs : DeleteBlob(r)
  \/ \E r \in Reqs : DeleteMeta(r)

SpecConcurrent == Init /\ [][NextConcurrent]_vars


\* the requests are handled one at a time and a read of the metadata store may
\* fail under a lookup or a listing
NextReadFaults ==
  \/ Next
  \/ \E fileId \in FileIds, what \in {"provider", "file"} : InfoReadFails(fileId, what)
  \/ \E q \in ListQueries : ListReadFails(q[1], q[2])

SpecReadFaults == Init /\ [][NextReadFaults]_vars


\* the resources a provider folder may hold under one object key: context,
\* provider file name and tags each present or absent
ForeignTags ==
  { <<>>, << <<"photo">> >>, << <<"original_name:", "t", ".", "png">> >>,
    << <<"photo">>, <<"original_name:", "t", ".", "png">>,
       <<"original_name:", "z">> >> }
ForeignResources ==
  { [ providerResource(publicIdOf(<<"u1">>), SmallContent, <<"image", "jpg", pn>>, 1)
        EXCEPT !.contextCustomName = cc, !.contextName = cn, !.tags = tg ] :
      cc \in {None, <<"c", ".", "jpg">>}, cn \in {None, <<"n", ".", "jpg">>},
      pn \in {None, <<"p">>}, tg \in ForeignTags }

\* the service on the remote backend over a folder that holds such a resource
InitProvider ==
  /\ storageType = "cloudinary"
  /\ now = 1
  /\ fs = WriteFile(WriteFile(WriteFile([p \in {} |-> Null],
                                        packagePath, Json(packageJson)),
                              legacyPath, Blob(legacyFile.content)),
                    metadataPathOf(legacyMetadata.id), Json(legacyMetadata))
  /\ \E res \in ForeignResources : cloud = {res}
  /\ usedUuids = {"u1"}
  /\ pc = [r \in Reqs |-> "idle"]
  /\ loc = [r \in Reqs |-> NoLoc]
  /\ resp = NoResp
  /\ issued = { [id |-> legacyMetadata.id, file |-> legacyFile, blobPath |-> legacyPath] }
  /\ deletes = [id \in {} |-> "none"]
  /\ faults = 0

NextProvider ==
  \/ \E fileId \in FileIds : Info(fileId)
  \/ \E q \in ListQueries : List(q[1], q[2])

SpecProvider == InitProvider /\ [][NextProvider]_vars


\* a provider call that never settles: the awaited promise of
\* cloudinary.uploader.upload or cloudinary.uploader.destroy stays pending; the
\* handler has no timer and no other continuation
Stall(r) ==
  /\ \/ pc[r] = "cloudUpload"
     \/ pc[r] = "unlinkBlob" /\ loc[r].metadata.storageType = "cloudinary"
  /\ pc' = [pc EXCEPT ![r] = "stalled"]
  /\ resp' = NoResp
  /\ UNCHANGED <<storageType, now, fs, cloud, usedUuids, loc, issued, deletes, faults>>

\* requests in flight together, over a provider whose calls may stall
NextLive ==
  \/ NextConcurrent
  \/ \E r \in Reqs : Stall(r)

\* the event loop runs the continuation of every call that has settled
Fairness ==
  \A r \in Reqs :
    /\ WF_vars(UploadWrite(r))
    /\ WF_vars(UploadCloud(r))
    /\ WF_vars(UploadSave(r))
    /\ WF_vars(DownloadAccess(r))
    /\ WF_vars(DownloadStream(r))
    /\ WF_vars(DeleteBlob(r))
    /\ WF_vars(DeleteMeta(r))

SpecLive == Init /\ [][NextLive]_vars /\ Fairness

\* ------------------------------------------------------------------- claims
\* the uploads answered 201 whose record no delete call has touched
Stored == { u \in issued : ~DeleteCalled(u.id) }

\* C1: after an accepted upload, on either backend, the info lookup of the
\* returned id answers 200 with the originalName, mimeType and size that were
\* uploaded.
C1_InfoReturnsWhatWasUploaded ==
  \A u \in Stored :
    LET answer == infoResponse(u.id) IN
      /\ answer.status = 200
      /\ answer.file.originalName = u.file.originalname
      /\ answer.file.mimeType = u.file.mimetype
      /\ answer.file.size = u.file.content.size

\* C2: an id that no upload has returned is answered 404 by the info lookup
\* and by the download.
C2_UnknownIdIsNotFound ==
  (resp.op \in {"info", "download"} /\ resp.req \notin KnownIds) => resp.status = 404

\* C3: on the local backend a download of an uploaded file, with no delete of
\* it in between, reads the very blob the upload wrote: the path resolved from
\* the record is the path written, and the bytes are the bytes uploaded.
C3_DownloadReadsTheUploadedBlob ==
  storageType = "local" =>
    /\ \A u \in Stored :
         LET metadata == loadFileMetadata(u.id) IN
           /\ metadata # Null
           /\ resolveFilePath(metadata) = u.blobPath
           /\ Exists(u.blobPath)
           /\ fs[u.blobPath] = Blob(u.file.content)
    /\ \A u \in Stored :
         (resp.op = "download" /\ resp.req = u.id) =>
           /\ resp.status = 200
           /\ resp.filePath = u.blobPath
           /\ resp.bytes = u.file.content.data

C3_Witness ==
  /\ storageType = "local"
  /\ resp.op = "download"
  /\ resp.status = 200
  /\ resp.req # legacyMetadata.id
  /\ \E u \in Stored : u.id = resp.req /\ resp.bytes = u.file.content.data

\* C4: a delete of an id on which an earlier delete call has already answered
\* is answered 404, whatever the two removal steps of the earlier call did.
C4_SecondDeleteIsNotFound ==
  (resp.op = "delete" /\ resp.again) => resp.status = 404

\* the decimal digits of a number below 100, as a query string holds them
DigitNames == <<"0", "1", "2", "3", "4", "5", "6", "7", "8", "9">>
Decimal(n) ==
  IF n < 10 THEN <<DigitNames[n + 1]>>
  ELSE <<DigitNames[(n \div 10) + 1], DigitNames[(n % 10) + 1]>>

C6_QueryIsClamped ==
  resp.op = "list" =>
    /\ resp.status = 200
    /\ resp.pagination.page >= 1
    /\ resp.pagination.limit >= 1

SizeCases == { 0, 1, maxFileSize - 1, maxFileSize, maxFileSize + 1, 2 * maxFileSize }

NameCases ==
  { [name |-> <<"file", ".", "jpg">>, ext |-> <<".", "jpg">>],
    [name |-> <<"photo", ".", "JPG">>, ext |-> <<".", "jpg">>],
    [name |-> <<"notes", ".", "TXT">>, ext |-> <<".", "txt">>],
    [name |-> <<"file", ".", "exe">>, ext |-> <<".", "exe">>],
    [name |-> <<"file", ".", "EXE">>, ext |-> <<".", "exe">>],
    [name |-> <<"file">>, ext |-> <<>>],
    [name |-> <<"file", ".">>, ext |-> <<".">>],
    [name |-> <<".", "txt">>, ext |-> <<>>],
    [name |-> <<"file", ".", "jpg", ".", "exe">>, ext |-> <<".", "exe">>],
    [name |-> <<"file", ".", "exe", ".", "jpg">>, ext |-> <<".", "jpg">>],
    [name |-> <<"a", ".", "jpg", "/", "file">>, ext |-> <<>>],
    [name |-> <<"report", ".", "docx">>, ext |-> <<".", "docx">>] }
MimeCases == allowedTypes \cup { "application/x-msdownload", "image/svg+xml", "" }

\* C8: the type check accepts a file exactly when its MIME type is in
\* allowedTypes and its lowercased extension is in allowedExtensions: image/jpeg
\* named file.exe is rejected, and so is a name without extension.
C8_TypeCheck ==
  /\ \A c \in NameCases, mime \in MimeCases :
       validateFileType(mime, c.name) <=>
         (mime \in allowedTypes /\ c.ext \in allowedExtensions)
  /\ \A c \in NameCases :
       (resp.op = "upload" /\ resp.req.originalname = c.name) =>
         IF resp.req.mimetype \in allowedTypes /\ c.ext \in allowedExtensions
         THEN resp.status = 400 => resp.error # "Invalid file type"
         ELSE resp.status = 400 /\ resp.error = "Invalid file type"
  /\ \A u \in issued, c \in NameCases :
       u.file.originalname = c.name =>
         u.file.mimetype \in allowedTypes /\ c.ext \in allowedExtensions

C8_Witness ==
  /\ resp.op = "upload"
  /\ resp.req.originalname = <<"file", ".", "exe">>
  /\ resp.req.mimetype = "image/jpeg"
  /\ resp.status = 400
  /\ resp.error = "Invalid file type"

\* the blob of an upload is in place: the file multer wrote, or the
\* provider's resource under the upload's public id
blobStored(id, file, blobPath) ==
  IF blobPath # None
  THEN Exists(blobPath) /\ fs[blobPath] = Blob(file.content)
  ELSE \E res \in cloud : res.public_id = publicIdOf(id) /\ res.data = file.content.data

\* the metadata records in the metadata directory
metadataFiles ==
  { fs[p].data : p \in { q \in DOMAIN fs : Front(q) = metadataDir /\ fs[q].kind = "json" } }

\* C9: any two uploads, those of identical bytes made together and those made
\* after deletions included, get distinct ids and are stored as independent
\* records and blobs; an id, once given, is not given again.
C9_IdsAreDistinct ==
  /\ \A u, v \in issued : u.id = v.id => u = v
  /\ \A u, v \in issued : (u # v /\ u.blobPath # None) => u.blobPath # v.blobPath
  /\ \A r \in Reqs : pc[r] = "save" =>
       /\ loc[r].metadata.id \notin KnownIds
       /\ \A u \in issued : u.blobPath # None => loc[r].blobPath # u.blobPath
       /\ \A q \in Reqs \ {r} : pc[q] = "save" =>
            /\ loc[q].metadata.id # loc[r].metadata.id
            /\ loc[q].metadata.publicId = None => loc[q].blobPath # loc[r].blobPath
            /\ loc[q].metadata.publicId # None =>
                 loc[q].metadata.publicId # loc[r].metadata.publicId
  /\ \A u \in Stored :
       /\ loadFileMetadata(u.id) # Null
       /\ loadFileMetadata(u.id).id = u.id
       /\ blobStored(u.id, u.file, u.blobPath)

C9_Witness ==
  /\ pc[1] = "save"
  /\ pc[2] = "save"
  /\ loc[1].file = loc[2].file
  /\ Cardinality(issued) = 1

\* C10: the metadata record of an upload is written only after its blob has
\* been written or uploaded; when the blob step fails no metadata record is
\* written and the caller is answered with a failure.
C10_MetadataAfterBlob ==
  /\ \A r \in Reqs : pc[r] = "save" =>
       blobStored(loc[r].metadata.id, loc[r].file, loc[r].blobPath)
  /\ \A m \in metadataFiles : m.id \in KnownIds
  /\ \A u \in Stored : blobStored(u.id, u.file, u.blobPath)
  /\ (resp.op = "upload" /\ resp.status # 201) =>
       /\ resp.status \in {400, 500}
       /\ \A m \in metadataFiles : m.originalName = resp.req.originalname => m.id \in KnownIds

C10_Witness ==
  /\ resp.op = "upload"
  /\ resp.status = 500
  /\ faults = 1
  /\ usedUuids # {}
  /\ cloud = {}
  /\ \A p \in DOMAIN fs : fs[p].kind = "blob" => p = legacyPath
  /\ metadataFiles = { legacyMetadata }

Quiet == \A r \in Reqs : pc[r] = "idle"

\* C11: with no request in flight, every stored blob has exactly one
\* metadata record and every metadata record has a stored blob, whatever
\* uploads and deletes, failing steps included, came before.
C11_NoOrphanNoDangling ==
  Quiet =>
    /\ \A p \in DOMAIN fs : fs[p].kind = "blob" =>
         Cardinality({ m \in metadataFiles : resolveFilePath(m) = p }) = 1
    /\ \A res \in cloud :
         Cardinality({ m \in metadataFiles : m.publicId = res.public_id }) = 1
    /\ \A m \in metadataFiles :
         IF m.storageType = "cloudinary"
         THEN \E res \in cloud : res.public_id = m.publicId
         ELSE resolveFilePath(m) # None /\ Exists(resolveFilePath(m))

Attempted == {"removed", "failed", "absent"}

\* C12: a delete of an existing record tries the blob removal and the
\* metadata removal both: the metadata file is removed also when the blob
\* removal failed, and the blob is removed also when the metadata removal fails.
C12_DeleteTriesBothSteps ==
  /\ \A r \in Reqs : (pc[r] = "unlinkMeta" /\ loc[r].metadata.id \in KnownIds) =>
       loc[r].blobStep \in Attempted
  /\ (resp.op = "delete" /\ resp.status # 404 /\ resp.record \in KnownIds) =>
       /\ resp.blobStep \in Attempted
       /\ resp.metaStep \in Attempted
       /\ resp.metaStep = "removed" => ~Exists(metadataPathOf(resp.req))
       /\ resp.blobStep = "removed" =>
            \A u \in issued : u.id = resp.record =>
              ~blobStored(u.id, u.file, u.blobPath)

C12_Witness ==
  /\ resp.op = "delete"
  /\ resp.status = 500
  /\ resp.record \in KnownIds
  /\ resp.blobStep = "failed"
  /\ resp.metaStep = "removed"
  /\ ~Exists(metadataPathOf(resp.req))

\* the part of a response the caller can tell outcomes apart by
Visible(response) == [status |-> response.status, error |-> response.error]

\* C13: an upload whose blob was stored but whose metadata was not, and a
\* delete of which exactly one removal step succeeded, are answered differently
\* from a success and from a failure in which nothing changed.
C13_PartialOutcomeIsTold ==
  /\ (resp.op = "upload" /\ resp.status = 500 /\ resp.blobStored) =>
       Visible(resp) # Visible(blobFailure(resp.req))
  /\ ( /\ resp.op = "delete"
       /\ resp.status # 404
       /\ (resp.blobStep = "removed") # (resp.metaStep = "removed") ) =>
       /\ resp.status # 200
       /\ Visible(resp) #
            Visible(deleteResponse([ fileId |-> resp.req, again |-> resp.again,
                                     metadata |-> [id |-> resp.record, originalName |-> None],
                                     fileDeleted |-> FALSE, blobStep |-> "failed" ],
                                   FALSE, "failed"))

\* C14: a delete of a record whose blob is already absent counts the blob
\* removal as done, removes the metadata record and is answered 200.
C14_AbsentBlobIsSuccess ==
  ( /\ resp.op = "delete"
    /\ resp.status # 404
    /\ resp.record \in KnownIds
    /\ resp.blobStep = "absent"
    /\ resp.metaStep = "removed" ) => resp.status = 200

\* C15: a delete whose blob removal failed with an error is answered with a
\* failure and leaves the metadata record in place for a later delete.
C15_RecordKeptWhenBlobRemovalFails ==
  ( /\ resp.op = "delete"
    /\ resp.status # 404
    /\ resp.record \in KnownIds
    /\ resp.blobStep = "failed" ) =>
    /\ resp.status = 500
    /\ loadFileMetadata(resp.req) # Null

\* path lies strictly inside the directory root
Inside(root, path) ==
  /\ Len(path) > Len(root)
  /\ SubSeq(path, 1, Len(root)) = root
  /\ \A i \in DOMAIN path : path[i] # DotDot

\* C16: every record of the local kind that an id loads resolves to a blob
\* path strictly inside uploadDir, and no id makes a request read or remove a
\* file outside uploadDir.
C16_StaysInsideRoot ==
  /\ \A fileId \in FileIds :
       LET metadata == loadFileMetadata(fileId) IN
         ( /\ metadata # Null
           /\ metadata.storageType # "cloudinary"
           /\ resolveFilePath(metadata) # None ) =>
           Inside(uploadDir, resolveFilePath(metadata))
  /\ (resp.op \in {"info", "download", "delete"} /\ resp.status # 404) =>
       Inside(uploadDir, metadataPathOf(resp.req))
  /\ \A r \in Reqs : pc[r] \in {"access", "stream", "unlinkBlob", "unlinkMeta"} =>
       Inside(uploadDir, metadataPathOf(loc[r].fileId))
  /\ Exists(packagePath)

\* C17: on the local backend the blob on disk is named by the id of the
\* record of its upload followed by the extension of the original name, and
\* the record's fileName is the name of that file.
C17_BlobIsNamedByRecordId ==
  /\ \A r \in Reqs : (pc[r] = "save" /\ loc[r].blobPath # None) =>
       /\ Last(loc[r].blobPath) =
            loc[r].metadata.id \o extname(loc[r].metadata.originalName)
       /\ loc[r].metadata.fileName = Last(loc[r].blobPath)
  /\ \A u \in issued : u.blobPath # None =>
       Last(u.blobPath) = u.id \o extname(u.file.originalname)

\* whether any blob of the upload u is still in the backend
blobPresent(u) ==
  \/ u.blobPath # None /\ Exists(u.blobPath)
  \/ \E res \in cloud : res.public_id = publicIdOf(u.id)

\* C18: once a delete of an id has been answered 200, the info lookup and the
\* download of the id are answered 404, no list holds the id, and the blob is
\* gone from the backend.
C18_DeletedIsGone ==
  /\ \A id \in DOMAIN deletes : Deleted(id) =>
       /\ loadFileMetadata(id) = Null
       /\ infoResponse(id).status = 404
       /\ \A m \in gatheredMetadata : m.id # id
       /\ \A u \in issued : u.id = id => ~blobPresent(u)
  /\ (resp.op \in {"info", "download"} /\ Deleted(resp.req)) => resp.status = 404
  /\ resp.op = "list" => \A i \in DOMAIN resp.files : ~Deleted(resp.files[i].id)
  /\ (resp.op = "delete" /\ resp.status = 200) => Deleted(resp.record)

C18_Witness ==
  /\ resp.op = "download"
  /\ resp.status = 404
  /\ Deleted(resp.req)
  /\ resp.req # legacyMetadata.id

\* C19: an upload of a disallowed type or of more than maxFileSize bytes is
\* answered 400 with the constraint it broke, and neither a blob nor a
\* metadata record of it exists afterwards.
C19_RejectedUploadStoresNothing ==
  /\ \A r \in Reqs : pc[r] = "write" =>
       \A p \in DOMAIN fs : fs[p].kind = "blob" => Last(p) # loc[r].uniqueFilename
  /\ \A r \in Reqs : pc[r] = "cloudUpload" =>
       \A res \in cloud : res.public_id # loc[r].publicId
  /\ ( /\ resp.op = "upload"
       /\ \/ ~validateFileType(resp.req.mimetype, resp.req.originalname)
          \/ resp.req.content.size > maxFileSize ) =>
       /\ resp.status = 400
       /\ resp.error = IF ~validateFileType(resp.req.mimetype, resp.req.originalname)
                       THEN "Invalid file type" ELSE "File too large"
       /\ \A p \in DOMAIN fs : fs[p].kind = "blob" => fs[p].bytes # resp.req.content.data
       /\ \A res \in cloud : res.data # resp.req.content.data
       /\ \A p \in DOMAIN fs : fs[p].kind = "json" =>
            fs[p].data.originalName # resp.req.originalname

C19_Witness ==
  /\ storageType = "local"
  /\ resp.op = "upload"
  /\ resp.status = 400
  /\ resp.error = "File too large"
  /\ resp.req.content.size > maxFileSize

\* the metadata files that hold a record, and those that do not parse
readableRecords ==
  { fs[p].data : p \in { q \in DOMAIN fs : Front(q) = metadataDir /\ fs[q].kind = "json" } }
corruptFiles == { q \in DOMAIN fs : Front(q) = metadataDir /\ fs[q].kind = "truncated" }

C21_MissingBlobIsNotFound ==
  /\ resp.op = "download" =>
       LET metadata == loadFileMetadata(resp.req) IN
         ( /\ metadata # Null
           /\ metadata.storageType # "cloudinary"
           /\ resolveFilePath(metadata) # None
           /\ ~Exists(resolveFilePath(metadata)) )
         => resp = notFound("download", resp.req)
  /\ \A r \in Reqs : pc[r] = "stream" => Exists(loc[r].filePath)

\* a download answered 404 although the record is there
C21_Witness ==
  /\ resp.op = "download"
  /\ resp.status = 404
  /\ loadFileMetadata(resp.req) # Null
  /\ ~Exists(resolveFilePath(loadFileMetadata(resp.req)))

\* ------------------------------------------------------------------------ C22
\* C22: when a read underneath a listing or a lookup fails (the metadata
\* directory, a metadata file, the provider listing), the operation answers
\* with a failure: never a successful listing, a successful lookup or 404.
C22_ReadFailureIsReported ==
  (resp.op \in {"info", "list"} /\ "ioFailed" \in DOMAIN resp) => resp.status >= 500

\* ------------------------------------------------------------------------ C23
\* C23: on either backend the ids for which a lookup returns a record are the
\* ids the listing returns; on the remote backend a lookup never returns a
\* record for an id absent from the provider listing.
C23_GetAndListAgree ==
  resp.op = "info" =>
    (resp.status = 200 <=> resp.req \in { m.id : m \in gatheredMetadata })

\* ------------------------------------------------------------------------ C24
\* the name the fixed order gives: the first present of context.custom's
\* original_filename, context's original_filename, the provider's
\* original_filename, the first 'original_name:' tag, the last key segment
tagName(resource) ==
  IF \E i \in DOMAIN resource.tags : Head(resource.tags[i]) = "original_name:"
  THEN Tail(resource.tags[CHOOSE i \in DOMAIN resource.tags :
              /\ Head(resource.tags[i]) = "original_name:"
              /\ \A k \in 1..(i - 1) : Head(resource.tags[k]) # "original_name:"])
  ELSE None
nameInOrder(resource) ==
  LET candidates == << resource.contextCustomName, resource.contextName,
                       resource.original_filename, tagName(resource),
                       lastSegment(resource.public_id) >>
  IN  candidates[CHOOSE i \in DOMAIN candidates :
                   /\ candidates[i] # None
                   /\ \A k \in 1..(i - 1) : candidates[k] = None]

\* C24: the display name of a remote record is the first present of the five
\* sources in the fixed order, and the listing and the lookup by id give the
\* same name for the same resource.
C24_SameNameOrder ==
  /\ \A res \in cloud : originalNameInList(res) = originalNameById(res)
  /\ (resp.op = "info" /\ resp.status = 200) =>
       \A res \in cloud : lastSegment(res.public_id) = resp.req =>
         resp.file.originalName = nameInOrder(res)
  /\ resp.op = "list" =>
       \A i \in DOMAIN resp.files :
         \E res \in cloud : /\ lastSegment(res.public_id) = resp.files[i].id
                            /\ resp.files[i].originalName = nameInOrder(res)

\* a lookup named a resource by its tag although the resource has a second tag
C24_Witness ==
  /\ resp.op = "info"
  /\ resp.status = 200
  /\ \E res \in cloud :
       /\ lastSegment(res.public_id) = resp.req
       /\ res.contextCustomName = None
       /\ res.contextName = None
       /\ res.original_filename = None
       /\ Len(res.tags) = 3
  /\ resp.file.originalName = <<"t", ".", "png">>

\* ------------------------------------------------------------------------ C25
\* C25: for every local record, download and delete resolve the same blob
\* path: the upload directory joined with relativePath when the record has
\* one, otherwise the legacy path; for a record with neither, download opens
\* nothing, delete removes no blob, and both answer with an error.
C25_SameBlobPath ==
  /\ \A fileId \in FileIds :
       LET metadata == loadFileMetadata(fileId) IN
         (metadata # Null /\ metadata.storageType # "cloudinary") =>
           /\ resolveFilePath(metadata) = deleteFilePath(metadata)
           /\ metadata.relativePath # None =>
                deleteFilePath(metadata) = JoinPath(uploadDir, metadata.relativePath)
           /\ (metadata.relativePath = None /\ metadata.path # None) =>
                deleteFilePath(metadata) = metadata.path
           /\ ( /\ metadata.relativePath = None
                /\ metadata.path = None
                /\ resp.op = "download"
                /\ resp.req = fileId ) =>
                (resp.status = 500 /\ resp.error = "Invalid metadata")
  /\ \A r \in Reqs :
       /\ pc[r] \in {"access", "stream"} =>
            loc[r].filePath = deleteFilePath(loc[r].metadata)
       /\ (pc[r] = "unlinkMeta" /\ loc[r].metadata.storageType # "cloudinary") =>
            /\ loc[r].blobStep = "removed" => ~Exists(resolveFilePath(loc[r].metadata))
            /\ (loc[r].metadata.relativePath = None /\ loc[r].metadata.path = None) =>
                 (loc[r].blobStep = "nopath" /\ ~loc[r].fileDeleted)
  /\ (resp.op = "delete" /\ resp.status # 404 /\ resp.blobStep = "nopath") =>
       resp.status = 500

\* a delete removed the blob of a record that holds only the legacy path
C25_Witness ==
  \E r \in Reqs :
    /\ pc[r] = "unlinkMeta"
    /\ loc[r].metadata.storageType # "cloudinary"
    /\ loc[r].metadata.relativePath = None
    /\ loc[r].metadata.path # None
    /\ loc[r].blobStep = "removed"

\* ------------------------------------------------------------------------ C26
\* C26: on the local backend the year/month/day partition in a record's stored
\* path is the calendar date of the same record's uploadDate, also for an
\* upload in progress while the date changes.
C26_PartitionIsUploadDate ==
  /\ \A p \in DOMAIN fs :
       (fs[p].kind = "json" /\ fs[p].data.storageType = "local") =>
         SubSeq(fs[p].data.relativePath, 1, 3) = DateDirs(fs[p].data.uploadDate)
  /\ \A r \in Reqs :
       (pc[r] = "save" /\ loc[r].metadata.storageType = "local") =>
         SubSeq(loc[r].metadata.relativePath, 1, 3) = DateDirs(loc[r].metadata.uploadDate)

\* ------------------------------------------------------------------------ C27
\* the requests in flight that upload, or delete, the record of an id
uploadingRecord(id) ==
  \E r \in Reqs : \/ pc[r] = "cloudUpload" /\ loc[r].uniqueId = id
                  \/ pc[r] = "save" /\ loc[r].metadata.id = id
deletingRecord(id) ==
  \E r \in Reqs : pc[r] \in {"unlinkBlob", "unlinkMeta"} /\ loc[r].metadata.id = id

\* C27: no operation changes an existing record: in every step the record a
\* lookup returns for an id keeps all its fields, or goes from absent to
\* present under an upload of that id, or from present to absent under a
\* delete of that id; the storage type of a record never changes.
C27_RecordsNeverChange ==
  [][ \A u \in Uuids \cup {LegacyUuid} :
        \/ loadFileMetadata(<<u>>)' = loadFileMetadata(<<u>>)
        \/ loadFileMetadata(<<u>>) = Null /\ uploadingRecord(<<u>>)
        \/ loadFileMetadata(<<u>>)' = Null /\ deletingRecord(<<u>>) ]_vars

\* ------------------------------------------------------------------------ C28
\* C28: every request eventually receives its response; a backend call that
\* stalls or fails surfaces as an error response, so no request stays in
\* flight for ever.
C28_EveryRequestIsAnswered ==
  \A r \in Reqs : (pc[r] # "idle") ~> (pc[r] = "idle")

\* ------------------------------------------------------------------------ C29
\* C29: of the deletes of one id, issued together or one after the other, at
\* most one is answered 200; once all of them have finished, and no removal
\* step was failed by the backend, neither the blob nor the metadata record of
\* the id remains.
C29_ConcurrentDeletes ==
  /\ \A id \in DOMAIN deletes : deletes[id] # "twice"
  /\ (Quiet /\ faults = 0) =>
       \A u \in issued : DeleteDone(u.id) =>
         /\ loadFileMetadata(u.id) = Null
         /\ ~Exists(metadataPathOf(u.id))
         /\ ~blobPresent(u)

\* one delete of an id has been answered 200 while another delete of the same
\* id, which loaded the record before, is still in flight
C29_Witness ==
  \E r \in Reqs :
    /\ pc[r] \in {"unlinkBlob", "unlinkMeta"}
    /\ Deleted(loc[r].metadata.id)

\* ------------------------------------------------------------------------ C30
\* C30: a local download running together with a delete of the same id either
\* streams the blob or is answered 404: it never opens a read stream on a blob
\* removed after the existence check, and never ends in an unhandled stream
\* error.
C30_DownloadStreamsOrNotFound ==
  /\ \A r \in Reqs : pc[r] = "stream" => Exists(loc[r].filePath)
  /\ resp.op = "download" => resp.status \in {200, 302, 404}

====
